---- MODULE Spec2Model ----
(***************************************************************************)
(* SOCKS5 proxy server (nibble-4bits/socks-server).                        *)
(*                                                                         *)
(* The connection dispatcher and the relay are modelled from src/lib.rs:   *)
(* the accept loop of SocksServer::listen, which performs the greeting,    *)
(* the request, the upstream dial and the reply on the accepting thread,   *)
(* and handle_packet_relay, which runs on a thread of its own and starts   *)
(* the two copy threads.  Sockets are byte queues; the clients and the     *)
(* upstream peers are the environment.                                     *)
(* The packet parsers and serializers of src/packets/ are modelled as       *)
(* operators and called on their own under SpecCodec.                      *)
(***************************************************************************)
EXTENDS Integers, Sequences, FiniteSets, TLC

\* ------------------------------------------------------------------ bounds

\* Number of clients that connect to the listener.
MaxConns == 2
\* Number of payload bytes each peer sends through the relay.
MaxPayload == 2

\* Length of the longest greeting buffer handed to ClientHello::new.
MaxHelloLen == 4
\* Number of bytes that may follow the packet in a request or auth buffer.
MaxTrail == 2

Conns == 1..MaxConns

\* ------------------------------------------------------- sequence helpers

Take(s, n) == SubSeq(s, 1, n)
Drop(s, n) == SubSeq(s, n + 1, Len(s))

IsPrefix(p, s) == Len(p) <= Len(s) /\ Take(s, Len(p)) = p

RECURSIVE SelectMap(_, _)
\* filter-and-map of a byte sequence used by the method loop (defined below)

\* ------------------------------------------------------------ packet codec

\* lib.rs: the version byte every server packet is built with
\* (ServerHello::new(5, ..), ServerReply::new(5, ..)).
SOCKS_VERSION == 5

\* enum AuthMethod { NoAuth, Gssapi, UserPassword } with derived
\* FromPrimitive / ToPrimitive: discriminants 0, 1, 2.
AuthMethod_from_u8(b) ==
    CASE b = 0 -> "NoAuth"
      [] b = 1 -> "Gssapi"
      [] b = 2 -> "UserPassword"
      [] OTHER -> "None"

AuthMethod_to_u8(m) ==
    CASE m = "NoAuth" -> 0
      [] m = "Gssapi" -> 1
      [] m = "UserPassword" -> 2
      [] OTHER -> 255

\* for method in methods_buf { if let Some(method) = from_u8(method) { push } }
SelectMap(bytes, i) ==
    IF i > Len(bytes) THEN <<>>
    ELSE IF AuthMethod_from_u8(bytes[i]) = "None" THEN SelectMap(bytes, i + 1)
         ELSE <<AuthMethod_from_u8(bytes[i])>> \o SelectMap(bytes, i + 1)

RecognizedMethods(bytes) == SelectMap(bytes, 1)

\* ServerHello::as_bytes
ServerHello_as_bytes(hello) == <<hello.version, AuthMethod_to_u8(hello.method)>>

\* ServerHello::new
ServerHello_new(version, method) == [version |-> version, method |-> method]

\* enum AddressType { Ipv4 = 1, DomainName = 3, Ipv6 = 4 }
AddressType_from_u8(b) ==
    CASE b = 1 -> "Ipv4"
      [] b = 3 -> "DomainName"
      [] b = 4 -> "Ipv6"
      [] OTHER -> "None"

AddressType_to_u8(t) ==
    CASE t = "Ipv4" -> 1
      [] t = "DomainName" -> 3
      [] t = "Ipv6" -> 4

\* u16::to_le_bytes, the low byte first.
u16_to_le_bytes(p) == <<p % 256, (p \div 256) % 256>>

\* u16::to_be_bytes / u16::from_be_bytes
u16_to_be_bytes(p) == <<(p \div 256) % 256, p % 256>>
u16_from_be_bytes(b) == b[1] * 256 + b[2]

\* ServerReply::new
ServerReply_new(version, reply, address_type, bound_address, bound_port) ==
    [version |-> version, reply |-> reply, reserved |-> 0,
     address_type |-> address_type, bound_address |-> bound_address,
     bound_port |-> bound_port]

\* ServerReply::as_bytes
ServerReply_as_bytes(r) ==
    LET packet == <<r.version, r.reply, r.reserved, AddressType_to_u8(r.address_type)>>
        port == u16_to_be_bytes(r.bound_port)
    IN  CASE r.bound_address.kind = "Ipv4" -> packet \o r.bound_address.octets \o port
          [] r.bound_address.kind = "Ipv6" -> packet \o r.bound_address.octets \o port
          [] OTHER -> packet \o <<Len(r.bound_address.octets) % 256>>
                             \o r.bound_address.octets

\* String::from_utf8(domain): whether the bytes from position i on are
\* well-formed UTF-8.
RECURSIVE Utf8From(_, _)
Utf8From(b, i) ==
    LET n == Len(b)
        Cont(j) == j <= n /\ b[j] >= 128 /\ b[j] <= 191
    IN  IF i > n THEN TRUE
        ELSE IF b[i] < 128 THEN Utf8From(b, i + 1)
        ELSE IF b[i] >= 194 /\ b[i] <= 223
             THEN Cont(i + 1) /\ Utf8From(b, i + 2)
        ELSE IF b[i] >= 224 /\ b[i] <= 239
             THEN /\ Cont(i + 1) /\ Cont(i + 2)
                  /\ (b[i] = 224 => b[i + 1] >= 160)
                  /\ (b[i] = 237 => b[i + 1] <= 159)
                  /\ Utf8From(b, i + 3)
        ELSE IF b[i] >= 240 /\ b[i] <= 244
             THEN /\ Cont(i + 1) /\ Cont(i + 2) /\ Cont(i + 3)
                  /\ (b[i] = 240 => b[i + 1] >= 144)
                  /\ (b[i] = 244 => b[i + 1] <= 143)
                  /\ Utf8From(b, i + 4)
        ELSE FALSE

IsUtf8(b) == Utf8From(b, 1)

\* ------------------------------------------------- packet codec (packets/)

\* Result<T, E> of a parser, and a call that does not return because an
\* index, a slice or an unwrap in it panics.
Ok(v) == [tag |-> "Ok", value |-> v]
Err(kind, args) == [tag |-> "Err", error |-> [kind |-> kind, args |-> args]]
Panic == [tag |-> "Panic"]

\* packets.rs: impl TryFrom<u8> for AuthMethod
AuthMethod_try_from(value) ==
    CASE value = 0 -> "NoAuth"
      [] value = 1 -> "Gssapi"
      [] value = 2 -> "UserPassword"
      [] value = 255 -> "NoAcceptableMethod"
      [] OTHER -> "Err"

\* packets.rs: impl TryFrom<u8> for AddressType
AddressType_try_from(value) ==
    CASE value = 1 -> "Ipv4"
      [] value = 3 -> "DomainName"
      [] value = 4 -> "Ipv6"
      [] OTHER -> "Err"

\* client_request.rs: impl TryFrom<u8> for RequestCommand
RequestCommand_try_from(value) ==
    CASE value = 1 -> "Connect"
      [] value = 2 -> "Bind"
      [] value = 3 -> "UdpAssociate"
      [] OTHER -> "Err"

\* The version byte of the username/password sub-negotiation.
USER_PASSWORD_AUTH_VERSION == 1

\* The reserved byte of a ServerReply.
RESERVED == 0

\* &raw_packet[from..to] (0-based, to exclusive), which panics unless
\* from <= to <= raw_packet.len().
SliceInRange(raw_packet, from, to) == from <= to /\ to <= Len(raw_packet)
Slice(raw_packet, from, to) == SubSeq(raw_packet, from + 1, to)

\* raw_packet[2..] of a greeting that holds its two header bytes: the slice
\* the method loop runs over.
MethodBytes(raw_packet) == Slice(raw_packet, 2, Len(raw_packet))

\* client_hello.rs: for &method in &raw_packet[2..] { if let Ok(method) =
\* AuthMethod::try_from(method) { methods.push(method) } }
RECURSIVE PushMethods(_, _)
PushMethods(bytes, i) ==
    IF i > Len(bytes) THEN <<>>
    ELSE IF AuthMethod_try_from(bytes[i]) = "Err" THEN PushMethods(bytes, i + 1)
         ELSE <<AuthMethod_try_from(bytes[i])>> \o PushMethods(bytes, i + 1)

\* raw_packet.len() < min, the first test of each parser.
TooShort_OffByOne(raw_packet, min) == Len(raw_packet) < min - 1

TooShort(raw_packet, min) == Len(raw_packet) < min

\* client_hello.rs: ClientHello::new
ClientHello_new(raw_packet) ==
    IF TooShort(raw_packet, 3) THEN Err("MalformedPacket", <<>>)
    ELSE IF raw_packet[1] # SOCKS_VERSION
         THEN Err("UnexpectedProtocolVersion", <<raw_packet[1]>>)
    ELSE IF raw_packet[2] = 0 THEN Err("MalformedPacket", <<>>)
    ELSE Ok([version |-> raw_packet[1],
             methods |-> PushMethods(MethodBytes(raw_packet), 1)])

\* client_request.rs: raw_packet.iter().rev().cloned().take(2).rev().collect()
LastTwo(raw_packet) ==
    SubSeq(raw_packet,
           IF Len(raw_packet) >= 2 THEN Len(raw_packet) - 1 ELSE 1,
           Len(raw_packet))

\* client_request.rs: the match on address_type, Panic when a slice is out of
\* range or String::from_utf8(..).unwrap() fails.
DestinationAddr(raw_packet, address_type) ==
    CASE address_type = "Ipv4" ->
             IF SliceInRange(raw_packet, 4, 8)
             THEN Ok([kind |-> "Ipv4", octets |-> Slice(raw_packet, 4, 8)])
             ELSE Panic
      [] address_type = "Ipv6" ->
             IF SliceInRange(raw_packet, 4, 20)
             THEN Ok([kind |-> "Ipv6", octets |-> Slice(raw_packet, 4, 20)])
             ELSE Panic
      [] address_type = "DomainName" ->
             LET len == raw_packet[5]
             IN  IF /\ SliceInRange(raw_packet, 5, len + 5)
                    /\ IsUtf8(Slice(raw_packet, 5, len + 5))
                 THEN Ok([kind |-> "DomainName",
                          octets |-> Slice(raw_packet, 5, len + 5)])
                 ELSE Panic

\* client_request.rs: ClientRequest::new
ClientRequest_new(raw_packet) ==
    IF TooShort(raw_packet, 10) THEN Err("MalformedPacket", <<>>)
    ELSE IF raw_packet[1] # SOCKS_VERSION
         THEN Err("UnexpectedProtocolVersion", <<raw_packet[1]>>)
    ELSE IF RequestCommand_try_from(raw_packet[2]) = "Bind"
         THEN Err("ErrUnsupportedBindCommand", <<>>)
    ELSE IF RequestCommand_try_from(raw_packet[2]) = "UdpAssociate"
         THEN Err("ErrUnsupportedUDPAssociateCommand", <<>>)
    ELSE IF RequestCommand_try_from(raw_packet[2]) = "Err"
         THEN Err("ErrUnknownCommand", <<>>)
    ELSE IF AddressType_try_from(raw_packet[4]) = "Err"
         THEN Err("ErrUnknownAddressType", <<>>)
    ELSE LET addr == DestinationAddr(raw_packet, AddressType_try_from(raw_packet[4]))
         IN  IF addr.tag = "Panic" THEN Panic
             ELSE Ok([version |-> raw_packet[1],
                      command |-> RequestCommand_try_from(raw_packet[2]),
                      destination_addr |-> addr.value,
                      destination_port |-> u16_from_be_bytes(LastTwo(raw_packet))])

\* client_user_pass_auth.rs: ClientUserPassAuth::new, Panic when a slice or
\* the index of the password length is out of range or
\* str::from_utf8(..).unwrap() fails.
ClientUserPassAuth_new(raw_packet) ==
    IF TooShort(raw_packet, 5) THEN Err("MalformedPacket", <<>>)
    ELSE IF raw_packet[1] # USER_PASSWORD_AUTH_VERSION
         THEN Err("UnexpectedUserPassAuthVersion", <<raw_packet[1]>>)
    ELSE LET username_len == raw_packet[2]
         IN  IF ~ SliceInRange(raw_packet, 2, username_len + 2) THEN Panic
             ELSE IF ~ IsUtf8(Slice(raw_packet, 2, username_len + 2)) THEN Panic
             ELSE IF username_len + 2 >= Len(raw_packet) THEN Panic
             ELSE LET password_len == raw_packet[username_len + 3]
                      from == username_len + 3
                      to == password_len + username_len + 3
                  IN  IF ~ SliceInRange(raw_packet, from, to) THEN Panic
                      ELSE IF ~ IsUtf8(Slice(raw_packet, from, to)) THEN Panic
                      ELSE Ok([version |-> raw_packet[1],
                               username |-> Slice(raw_packet, 2, username_len + 2),
                               password |-> Slice(raw_packet, from, to)])

\* server_reply.rs: enum Reply and `self.reply as u8`
Replies ==
    <<"Succeeded", "SocksServerFail", "ConnNotAllowed", "NetUnreachable",
      "HostUnreachable", "ConnRefused", "TTLExpired", "CmdNotSupported",
      "AddrTypeNotSupported">>

Reply_as_u8(reply) == CHOOSE i \in 0..8 : Replies[i + 1] = reply

\* server_reply.rs: ServerReply::new_successful_reply
ServerReply_new_successful_reply(sock_addr) ==
    [version |-> SOCKS_VERSION,
     reply |-> "Succeeded",
     reserved |-> RESERVED,
     address_type |-> IF sock_addr.kind = "V4" THEN "Ipv4" ELSE "Ipv6",
     bound_address |->
         [kind |-> IF sock_addr.kind = "V4" THEN "Ipv4" ELSE "Ipv6",
          octets |-> sock_addr.octets],
     bound_port |-> sock_addr.port]

\* An unsuccessful reply that names no bound address.
ServerReply_new_unsuccessful_reply_NoAddress(reply) ==
    [version |-> SOCKS_VERSION,
     reply |-> reply,
     reserved |-> RESERVED,
     address_type |-> "DomainName",
     bound_address |-> [kind |-> "DomainName", octets |-> <<>>],
     bound_port |-> 0]

\* server_reply.rs: ServerReply::new_unsuccessful_reply
ServerReply_new_unsuccessful_reply(reply) ==
    [version |-> SOCKS_VERSION,
     reply |-> reply,
     reserved |-> RESERVED,
     address_type |-> "Ipv4",
     bound_address |-> [kind |-> "Ipv4", octets |-> <<0, 0, 0, 0>>],
     bound_port |-> 0]

\* An as_bytes whose Ipv6 arm leaves the port out.
ServerReply_as_bytes_packets_NoPort(r) ==
    LET packet == <<r.version, Reply_as_u8(r.reply), r.reserved,
                    AddressType_to_u8(r.address_type)>>
    IN  IF r.bound_address.kind = "Ipv4"
        THEN packet \o r.bound_address.octets \o u16_to_be_bytes(r.bound_port)
        ELSE packet \o r.bound_address.octets

\* server_reply.rs: ServerReply::as_bytes; the arm of a domain name appends
\* nothing.
ServerReply_as_bytes_packets(r) ==
    LET packet == <<r.version, Reply_as_u8(r.reply), r.reserved,
                    AddressType_to_u8(r.address_type)>>
        port == u16_to_be_bytes(r.bound_port)
    IN  CASE r.bound_address.kind = "Ipv4" -> packet \o r.bound_address.octets \o port
          [] r.bound_address.kind = "Ipv6" -> packet \o r.bound_address.octets \o port
          [] OTHER -> packet

\* ------------------------------------------------------------ environment

\* main.rs hands the server an AuthSettings whose method is one of the two
\* the configuration surface allows.
ConfigMethods == {"NoAuth", "UserPassword"}

\* Greetings a client may send (VER, NMETHODS, METHODS): NoAuth only,
\* UserPassword only, both, a wrong version, no methods, and a greeting cut
\* after its first byte.
Greetings ==
    { <<5, 1, 0>>, <<5, 1, 2>>, <<5, 2, 0, 2>>, <<4, 1, 0>>, <<5, 0>>, <<5>> }

Ipv6Loopback == <<0, 0, 0, 0, 0, 0, 0, 0, 0, 0, 0, 0, 0, 0, 0, 1>>

\* Requests a client may send (VER, CMD, RSV, ATYP, DST.ADDR, DST.PORT).
ReqConnectV4 == <<5, 1, 0, 1, 127, 0, 0, 1, 0, 80>>
ReqBind == <<5, 2, 0, 1, 127, 0, 0, 1, 0, 80>>
ReqUdpAssociate == <<5, 3, 0, 1, 127, 0, 0, 1, 0, 80>>
ReqUnknownCmd == <<5, 9, 0, 1, 127, 0, 0, 1, 0, 80>>
ReqBadAtyp == <<5, 1, 0, 2, 127, 0, 0, 1, 0, 80>>
ReqBadVersion == <<4, 1, 0, 1, 127, 0, 0, 1, 0, 80>>
ReqDomain == <<5, 1, 0, 3, 1, 97, 0, 80>>
ReqDomainBadUtf8 == <<5, 1, 0, 3, 1, 255, 0, 80>>
ReqConnectV6 == <<5, 1, 0, 4>> \o Ipv6Loopback \o <<0, 80>>
ReqShort == <<5, 1, 0>>

Requests ==
    { ReqConnectV4, ReqBind, ReqUdpAssociate, ReqUnknownCmd, ReqBadAtyp,
      ReqBadVersion, ReqDomain, ReqDomainBadUtf8, ReqConnectV6, ReqShort }

\* The i-th payload byte of the client and of the upstream peer.
ClientByte(i) == 192 + i
RemoteByte(i) == 160 + i

\* Results of TcpStream::connect other than Ok.
DialErrors == {"ConnectionRefused", "HostUnreachable", "TimedOut"}

\* Local addresses the upstream socket may be bound to (local_addr()).
LocalAddrs ==
    { [kind |-> "V4", octets |-> <<127, 0, 0, 1>>, port |-> 40000],
      [kind |-> "V6", octets |-> Ipv6Loopback, port |-> 40001] }

\* Every buffer a read of at most Len(f) bytes of packet f may return.
Prefixes(S) == UNION { { Take(f, n) : n \in 0..Len(f) } : f \in S }

\* The bytes that follow a packet in a buffer: the beginning of what the
\* client sent next.
Trails == { [i \in 1..n |-> 8 + i] : n \in 0..MaxTrail }

\* Buffers handed to ClientHello::new: every sequence of at most MaxHelloLen
\* bytes that are a version, a method count or a method (5, 0, 1, 2), the
\* marker of no acceptable method (255) or none of them (7).
HelloBytes == {0, 1, 2, 5, 7, 255}
HelloBuffers == UNION { [1..n -> HelloBytes] : n \in 0..MaxHelloLen }

\* Address bodies (DST.ADDR) sent with an address type byte: an IPv4 and an
\* IPv6 address, and domain names of one and of five bytes, one of them not
\* UTF-8, each behind its length byte.
AddrBodies(atyp) ==
    CASE atyp = 3 -> { <<1, 97>>, <<5, 97, 98, 99, 100, 101>>,
                       <<5, 97, 255, 99, 100, 101>>, <<5, 195, 169, 99, 100, 101>> }
      [] atyp = 4 -> { Ipv6Loopback }
      [] OTHER -> { <<127, 0, 0, 1>> }

\* Buffers handed to ClientRequest::new: requests to port 443 with every
\* version, command and address type of interest, whole or cut short, alone
\* or followed by further bytes.
RequestBuffers ==
    Prefixes(UNION { { <<v, c, 0, t>> \o b \o <<1, 187>> \o trail :
                          b \in AddrBodies(t) } :
                     v \in {4, 5}, c \in {1, 2, 3, 9}, t \in {1, 2, 3, 4},
                     trail \in Trails })

\* Usernames and passwords: empty, ASCII, two-byte UTF-8 and not UTF-8.
Names == { <<>>, <<97>>, <<97, 98>>, <<195, 169>>, <<255>> }

\* Buffers handed to ClientUserPassAuth::new (VER, ULEN, UNAME, PLEN, PASSWD).
AuthBuffers ==
    Prefixes({ <<v, Len(u)>> \o u \o <<Len(p)>> \o p \o trail :
                   v \in {1, 5}, u \in Names, p \in Names, trail \in Trails })

\* Socket addresses handed to the constructors of a successful reply.
SockAddrs ==
    LocalAddrs \cup
    { [kind |-> "V4", octets |-> <<0, 0, 0, 0>>, port |-> 0],
      [kind |-> "V4", octets |-> <<255, 255, 255, 255>>, port |-> 65535],
      [kind |-> "V6", octets |-> [i \in 1..16 |-> 255], port |-> 255] }

\* ------------------------------------------------------------------ state

VARIABLES
    auth_settings,   \* AuthSettings.method handed to the server by main
    clients,         \* the clients that connect to the listener in this run
    proc,            \* "running", "panicked" (main thread unwound), "exited"
    backlog,         \* connections waiting in the listener's accept queue
    pc,              \* where the accepting thread is in listen()
    cur,             \* the connection held as client_conn by listen(), 0: none
    client_hello,    \* listen(): the ClientHello read so far
    client_request,  \* listen(): the ClientRequest read so far
    domain_name_len, \* read_client_request(): the length byte of a domain name
    local_addr,      \* send_server_reply(): remote_conn.local_addr()
    wpos,            \* bytes of the buffer the current write_all has written
    c_state,         \* client socket, client side: idle, open, fin, rst
    c_stage,         \* messages the client has sent
    c_in,            \* bytes sent by the client and not yet read by the server
    c_out,           \* bytes the server has written to the client
    c_fds,           \* open handles of the server on the client socket
    r_state,         \* upstream socket, peer side: none, open, fin, rst
    r_sent,          \* payload bytes the upstream peer has sent
    r_in,            \* bytes sent by the upstream peer and not yet read
    r_out,           \* bytes the server has written to the upstream peer
    r_fds,           \* open handles of the server on the upstream socket
    dial,            \* result of TcpStream::connect for the connection
    h_pc,            \* handle_packet_relay thread of the connection
    t_pc,            \* the two copy threads of the connection
    t_buf,           \* buf[..n] of a copy thread between its read and write
    log,             \* the phases of listen() completed for the connection
    would_block,     \* whether a read of a relay stream may return WouldBlock
    io_err,          \* the last error a read or write returned to a copy thread
    call             \* the last call of a packets/ function: name, argument, result

\* What no step of the server or of a peer changes.
cfgVars == <<auth_settings, clients, call, would_block>>
accVars ==
    <<pc, cur, client_hello, client_request, domain_name_len, local_addr, wpos>>
cliVars == <<c_state, c_stage, c_in>>
remVars == <<r_state, r_sent, r_in>>
relVars == <<h_pc, t_pc, t_buf, io_err>>

vars ==
    <<auth_settings, clients, proc, backlog, pc, cur, client_hello, client_request,
      domain_name_len, local_addr, wpos, c_state, c_stage, c_in, c_out, c_fds, r_state, r_sent,
      r_in, r_out, r_fds, dial, h_pc, t_pc, t_buf, log, call, would_block, io_err>>

\* The state of the server and of its peers.
serverVars ==
    <<auth_settings, clients, would_block, proc, backlog, accVars, cliVars,
      c_out, c_fds, remVars, r_out, r_fds, dial, relVars, log>>

Tasks == {"client_to_remote", "remote_to_client"}

NoHello == [version |-> 0, n_methods |-> 0, methods |-> <<>>]
NoAddr == [kind |-> "None", octets |-> <<>>]
NoRequest ==
    [version |-> 0, command |-> 0, reserved |-> 0, address_type |-> "None",
     destination_addr |-> NoAddr, destination_port |-> 0]
NoLocal == [kind |-> "None", octets |-> <<>>, port |-> 0]
NoCall == [fn |-> "none", arg |-> <<>>, ret |-> <<>>]

\* Everything but the set of clients that will connect.
InitServer ==
    /\ auth_settings \in [method : ConfigMethods]
    /\ proc = "running"
    /\ backlog = <<>>
    /\ pc = "accept"
    /\ cur = 0
    /\ client_hello = NoHello
    /\ client_request = NoRequest
    /\ domain_name_len = 0
    /\ local_addr = NoLocal
    /\ wpos = 0
    /\ c_state = [c \in Conns |-> "idle"]
    /\ c_stage = [c \in Conns |-> 0]
    /\ c_in = [c \in Conns |-> <<>>]
    /\ c_out = [c \in Conns |-> <<>>]
    /\ c_fds = [c \in Conns |-> 0]
    /\ r_state = [c \in Conns |-> "none"]
    /\ r_sent = [c \in Conns |-> 0]
    /\ r_in = [c \in Conns |-> <<>>]
    /\ r_out = [c \in Conns |-> <<>>]
    /\ r_fds = [c \in Conns |-> 0]
    /\ dial = [c \in Conns |-> "none"]
    /\ h_pc = [c \in Conns |-> "none"]
    /\ t_pc = [c \in Conns |-> [t \in Tasks |-> "none"]]
    /\ t_buf = [c \in Conns |-> [t \in Tasks |-> <<>>]]
    /\ log = [c \in Conns |-> <<>>]
    /\ call = NoCall
    /\ io_err = [c \in Conns |-> [t \in Tasks |-> "none"]]

\* One client connects: the state machine of a single connection.  The
\* server leaves its streams in blocking mode and sets no read timeout, so no
\* read returns WouldBlock.
Init == InitServer /\ clients = {1} /\ would_block = FALSE

\* MaxConns clients connect.
InitConcurrent == InitServer /\ clients = Conns /\ would_block = FALSE

\* One client connects, and the reads of the relay streams may return
\* ErrorKind::WouldBlock, as the reads of a stream with a read timeout or in
\* non-blocking mode do: the case the WouldBlock arm of remote_to_client is
\* written for.
InitWouldBlock == InitServer /\ clients = {1} /\ would_block = TRUE

\* ---------------------------------------------------------------- sockets

\* A std::io::Read::read_exact of n bytes on the client socket returns Ok
\* once n bytes have arrived; it returns Err when the peer has reset the
\* connection, or has closed it with fewer than n bytes left (UnexpectedEof).
\* A read_exact into an empty buffer returns Ok at once.
ReadExactOk(c, n) == n = 0 \/ (c_state[c] # "rst" /\ Len(c_in[c]) >= n)

ReadExactErr(c, n) ==
    /\ n > 0
    /\ \/ c_state[c] = "rst"
       \/ c_state[c] = "fin" /\ Len(c_in[c]) < n

\* One write call of write_all takes between 1 and all of the bytes left;
\* the model lets it take all of them or the first half of them.
WriteSizes(left) == {left, (left + 1) \div 2}

\* One read call returns between 1 and all of the bytes that have arrived;
\* the model lets it return all of them or the first one.
ReadSizes(avail) == {avail, 1}

\* A write_all that returned after its first write call, as a single
\* stream.write(..) in its place would.
WriteAllDone_FirstWrite(buf, pos, k) == TRUE

\* write_all returns once the whole buffer has been written.
WriteAllDone(buf, pos, k) == pos + k = Len(buf)

\* The error a read of a relay stream returns, "none" if it returns Ok or
\* blocks: ConnectionReset once the peer has reset the connection, WouldBlock
\* when no byte has arrived on an open connection and would_block is set.
ReadError(state, arrived) ==
    IF state = "rst" THEN "ConnectionReset"
    ELSE IF would_block /\ state = "open" /\ arrived = <<>> THEN "WouldBlock"
    ELSE "none"

\* The peer of a socket observes end-of-stream once the server holds no
\* handle on it any more, or the server process has ended.
ClientSockClosed(c) == proc # "running" \/ (c_state[c] # "idle" /\ c \notin {backlog[i] : i \in DOMAIN backlog} /\ c_fds[c] = 0)
RemoteSockClosed(c) == r_state[c] # "none" /\ (proc # "running" \/ r_fds[c] = 0)

\* ------------------------------------------------------------ the clients

\* Clients connect in the order of their numbers.
ClientConnect(c) ==
    /\ proc = "running"
    /\ c \in clients
    /\ c_state[c] = "idle"
    /\ \A d \in Conns : d < c => c_state[d] # "idle"
    /\ c_state' = [c_state EXCEPT ![c] = "open"]
    /\ backlog' = Append(backlog, c)
    /\ UNCHANGED <<cfgVars, proc, accVars, c_stage, c_in, c_out, c_fds,
                   remVars, r_out, r_fds, dial, relVars, log>>

ClientSendGreeting(c) ==
    /\ proc = "running"
    /\ c_state[c] = "open"
    /\ c_stage[c] = 0
    /\ \E g \in Greetings : c_in' = [c_in EXCEPT ![c] = @ \o g]
    /\ c_stage' = [c_stage EXCEPT ![c] = 1]
    /\ UNCHANGED <<cfgVars, proc, backlog, accVars, c_state, c_out, c_fds,
                   remVars, r_out, r_fds, dial, relVars, log>>

\* The client sends its request once it has received the two bytes of the
\* ServerHello, and payload once it has received the whole ServerReply.
ClientGotHello(c) == Len(c_out[c]) >= 2

ClientGotReply(c) ==
    /\ Len(c_out[c]) >= 6
    /\ Len(c_out[c]) >= 2 + (IF c_out[c][6] = 4 THEN 22 ELSE 10)

ClientSendRequest(c) ==
    /\ proc = "running"
    /\ c_state[c] = "open"
    /\ c_stage[c] = 1
    /\ ClientGotHello(c)
    /\ \E r \in Requests : c_in' = [c_in EXCEPT ![c] = @ \o r]
    /\ c_stage' = [c_stage EXCEPT ![c] = 2]
    /\ UNCHANGED <<cfgVars, proc, backlog, accVars, c_state, c_out, c_fds,
                   remVars, r_out, r_fds, dial, relVars, log>>

ClientSendData(c) ==
    /\ proc = "running"
    /\ c_state[c] = "open"
    /\ c_stage[c] >= 2
    /\ c_stage[c] < 2 + MaxPayload
    /\ ClientGotReply(c)
    /\ c_in' = [c_in EXCEPT ![c] = Append(@, ClientByte(c_stage[c] - 1))]
    /\ c_stage' = [c_stage EXCEPT ![c] = @ + 1]
    /\ UNCHANGED <<cfgVars, proc, backlog, accVars, c_state, c_out, c_fds,
                   remVars, r_out, r_fds, dial, relVars, log>>

\* The client shuts down its sending side: the server reads end-of-stream
\* after the bytes already sent.
ClientClose(c) ==
    /\ proc = "running"
    /\ c_state[c] = "open"
    /\ c_state' = [c_state EXCEPT ![c] = "fin"]
    /\ UNCHANGED <<cfgVars, proc, backlog, accVars, c_stage, c_in, c_out,
                   c_fds, remVars, r_out, r_fds, dial, relVars, log>>

\* The client aborts the connection: reads and writes of the server on it
\* fail from now on.
ClientReset(c) ==
    /\ proc = "running"
    /\ c_state[c] \in {"open", "fin"}
    /\ c_state' = [c_state EXCEPT ![c] = "rst"]
    /\ UNCHANGED <<cfgVars, proc, backlog, accVars, c_stage, c_in, c_out,
                   c_fds, remVars, r_out, r_fds, dial, relVars, log>>

\* ------------------------------------------------------ the upstream peers

RemoteSendData(c) ==
    /\ proc = "running"
    /\ r_state[c] = "open"
    /\ r_sent[c] < MaxPayload
    /\ r_in' = [r_in EXCEPT ![c] = Append(@, RemoteByte(r_sent[c] + 1))]
    /\ r_sent' = [r_sent EXCEPT ![c] = @ + 1]
    /\ UNCHANGED <<cfgVars, proc, backlog, accVars, cliVars, c_out, c_fds,
                   r_state, r_out, r_fds, dial, relVars, log>>

RemoteClose(c) ==
    /\ proc = "running"
    /\ r_state[c] = "open"
    /\ r_state' = [r_state EXCEPT ![c] = "fin"]
    /\ UNCHANGED <<cfgVars, proc, backlog, accVars, cliVars, c_out, c_fds,
                   r_sent, r_in, r_out, r_fds, dial, relVars, log>>

RemoteReset(c) ==
    /\ proc = "running"
    /\ r_state[c] \in {"open", "fin"}
    /\ r_state' = [r_state EXCEPT ![c] = "rst"]
    /\ UNCHANGED <<cfgVars, proc, backlog, accVars, cliVars, c_out, c_fds,
                   r_sent, r_in, r_out, r_fds, dial, relVars, log>>

\* ------------------------------------------------- SocksServer::listen

\* An unwrap or expect fails on the accepting thread: the panic unwinds
\* through listen() and main, and the process ends.  process::exit ends it
\* as well.  The operating system then closes every socket.
ProcessEnds(how) ==
    /\ proc' = how
    /\ UNCHANGED <<cfgVars, backlog, accVars, cliVars, c_out, c_fds,
                   remVars, r_out, r_fds, relVars, log>>

\* listener.accept()
Accept ==
    /\ proc = "running"
    /\ pc = "accept"
    /\ backlog # <<>>
    /\ cur' = Head(backlog)
    /\ backlog' = Tail(backlog)
    /\ c_fds' = [c_fds EXCEPT ![Head(backlog)] = 1]
    /\ pc' = "read_client_hello"
    /\ UNCHANGED <<cfgVars, proc, client_hello, client_request,
                   domain_name_len, local_addr, wpos, cliVars, c_out, remVars,
                   r_out, r_fds, dial, relVars, log>>

\* read_client_hello: stream.read_exact(&mut buf).unwrap() of [version, n_methods]
ReadClientHelloHeader ==
    /\ proc = "running"
    /\ pc = "read_client_hello"
    /\ \/ /\ ReadExactOk(cur, 2)
          /\ client_hello' = [version |-> c_in[cur][1],
                              n_methods |-> c_in[cur][2],
                              methods |-> <<>>]
          /\ c_in' = [c_in EXCEPT ![cur] = Drop(@, 2)]
          /\ pc' = "read_client_hello_methods"
          /\ UNCHANGED <<cfgVars, proc, backlog, cur, client_request,
                         domain_name_len, local_addr, wpos, c_state, c_stage,
                         c_out, c_fds, remVars, r_out, r_fds, dial, relVars, log>>
       \/ /\ ReadExactErr(cur, 2)
          /\ ProcessEnds("panicked")
          /\ UNCHANGED dial

\* read_client_hello: the read of methods_buf and the loop over it
ReadClientHelloMethods ==
    /\ proc = "running"
    /\ pc = "read_client_hello_methods"
    /\ LET n == client_hello.n_methods
       IN  \/ /\ ReadExactOk(cur, n)
              /\ client_hello' =
                     [client_hello EXCEPT
                         !.methods = RecognizedMethods(Take(c_in[cur], n))]
              /\ c_in' = [c_in EXCEPT ![cur] = Drop(@, n)]
              /\ pc' = "send_server_hello"
              /\ log' = [log EXCEPT ![cur] = Append(@, "read_client_hello")]
              /\ UNCHANGED <<cfgVars, proc, backlog, cur, client_request,
                             domain_name_len, local_addr, wpos, c_state, c_stage,
                             c_out, c_fds, remVars, r_out, r_fds, dial, relVars>>
           \/ /\ ReadExactErr(cur, n)
              /\ ProcessEnds("panicked")
              /\ UNCHANGED dial

\* send_server_hello: the method put in the ServerHello.  The function takes
\* the ClientHello and does not look at it.
SelectedMethod(settings, hello) == "NoAuth"

ServerHelloBuf ==
    ServerHello_as_bytes(
        ServerHello_new(SOCKS_VERSION, SelectedMethod(auth_settings, client_hello)))

\* send_server_hello: stream.write_all(..).unwrap()
SendServerHello ==
    /\ proc = "running"
    /\ pc = "send_server_hello"
    /\ \/ /\ c_state[cur] # "rst"
          /\ \E k \in WriteSizes(Len(ServerHelloBuf) - wpos) :
                /\ c_out' = [c_out EXCEPT
                                ![cur] = @ \o SubSeq(ServerHelloBuf, wpos + 1, wpos + k)]
                /\ IF WriteAllDone(ServerHelloBuf, wpos, k)
                   THEN /\ wpos' = 0
                        /\ pc' = "read_client_request"
                        /\ log' = [log EXCEPT ![cur] = Append(@, "send_server_hello")]
                   ELSE /\ wpos' = wpos + k
                        /\ UNCHANGED <<pc, log>>
          /\ UNCHANGED <<cfgVars, proc, backlog, cur, client_hello,
                         client_request, domain_name_len, local_addr, cliVars,
                         c_fds, remVars, r_out, r_fds, dial, relVars>>
       \/ /\ c_state[cur] = "rst"
          /\ ProcessEnds("panicked")
          /\ UNCHANGED dial

\* read_client_request: the read of [version, command, reserved, address_type]
\* and the conversion of the address type, which exits the process when the
\* byte is not one of 1, 3, 4.
ReadClientRequestHeader ==
    /\ proc = "running"
    /\ pc = "read_client_request"
    /\ \/ /\ ReadExactOk(cur, 4)
          /\ client_request' =
                 [NoRequest EXCEPT
                     !.version = c_in[cur][1],
                     !.command = c_in[cur][2],
                     !.reserved = c_in[cur][3],
                     !.address_type = AddressType_from_u8(c_in[cur][4])]
          /\ c_in' = [c_in EXCEPT ![cur] = Drop(@, 4)]
          /\ IF AddressType_from_u8(c_in[cur][4]) = "None"
             THEN proc' = "exited" /\ UNCHANGED pc
             ELSE pc' = "read_destination_addr" /\ UNCHANGED proc
          /\ UNCHANGED <<cfgVars, backlog, cur, client_hello,
                         domain_name_len, local_addr, wpos, c_state, c_stage,
                         c_out, c_fds, remVars, r_out, r_fds, dial, relVars, log>>
       \/ /\ ReadExactErr(cur, 4)
          /\ ProcessEnds("panicked")
          /\ UNCHANGED dial

\* read_client_request: match address_type, first read of each arm
ReadDestinationAddr ==
    /\ proc = "running"
    /\ pc = "read_destination_addr"
    /\ LET n == CASE client_request.address_type = "Ipv4" -> 4
                  [] client_request.address_type = "Ipv6" -> 16
                  [] client_request.address_type = "DomainName" -> 1
       IN  \/ /\ ReadExactOk(cur, n)
              /\ c_in' = [c_in EXCEPT ![cur] = Drop(@, n)]
              /\ IF client_request.address_type = "DomainName"
                 THEN /\ domain_name_len' = c_in[cur][1]
                      /\ pc' = "read_domain_name"
                      /\ UNCHANGED client_request
                 ELSE /\ client_request' =
                             [client_request EXCEPT
                                 !.destination_addr =
                                     [kind |-> client_request.address_type,
                                      octets |-> Take(c_in[cur], n)]]
                      /\ pc' = "read_destination_port"
                      /\ UNCHANGED domain_name_len
              /\ UNCHANGED <<cfgVars, proc, backlog, cur, client_hello,
                             local_addr, wpos, c_state, c_stage, c_out, c_fds,
                             remVars, r_out, r_fds, dial, relVars, log>>
           \/ /\ ReadExactErr(cur, n)
              /\ ProcessEnds("panicked")
              /\ UNCHANGED dial

\* read_client_request: the read of the domain name and
\* String::from_utf8(domain).unwrap()
ReadDomainName ==
    /\ proc = "running"
    /\ pc = "read_domain_name"
    /\ \/ /\ ReadExactOk(cur, domain_name_len)
          /\ c_in' = [c_in EXCEPT ![cur] = Drop(@, domain_name_len)]
          /\ IF IsUtf8(Take(c_in[cur], domain_name_len))
             THEN /\ client_request' =
                         [client_request EXCEPT
                             !.destination_addr =
                                 [kind |-> "DomainName",
                                  octets |-> Take(c_in[cur], domain_name_len)]]
                  /\ pc' = "read_destination_port"
                  /\ UNCHANGED proc
             ELSE /\ proc' = "panicked"
                  /\ UNCHANGED <<client_request, pc>>
          /\ UNCHANGED <<cfgVars, backlog, cur, client_hello,
                         domain_name_len, local_addr, wpos, c_state, c_stage,
                         c_out, c_fds, remVars, r_out, r_fds, dial, relVars, log>>
       \/ /\ ReadExactErr(cur, domain_name_len)
          /\ ProcessEnds("panicked")
          /\ UNCHANGED dial

\* read_client_request: the read of destination_port
ReadDestinationPort ==
    /\ proc = "running"
    /\ pc = "read_destination_port"
    /\ \/ /\ ReadExactOk(cur, 2)
          /\ client_request' =
                 [client_request EXCEPT
                     !.destination_port = u16_from_be_bytes(Take(c_in[cur], 2))]
          /\ c_in' = [c_in EXCEPT ![cur] = Drop(@, 2)]
          /\ pc' = "connect"
          /\ log' = [log EXCEPT ![cur] = Append(@, "read_client_request")]
          /\ UNCHANGED <<cfgVars, proc, backlog, cur, client_hello,
                         domain_name_len, local_addr, wpos, c_state, c_stage,
                         c_out, c_fds, remVars, r_out, r_fds, dial, relVars>>
       \/ /\ ReadExactErr(cur, 2)
          /\ ProcessEnds("panicked")
          /\ UNCHANGED dial

\* send_server_reply: TcpStream::connect(format!("{}:{}", addr, port)).unwrap()
\* and remote_conn.local_addr()
Connect ==
    /\ proc = "running"
    /\ pc = "connect"
    /\ log' = [log EXCEPT ![cur] = Append(@, "connect")]
    /\ \/ /\ \E a \in LocalAddrs : local_addr' = a
          /\ dial' = [dial EXCEPT ![cur] = "Ok"]
          /\ r_state' = [r_state EXCEPT ![cur] = "open"]
          /\ r_fds' = [r_fds EXCEPT ![cur] = 1]
          /\ pc' = "send_server_reply"
          /\ UNCHANGED proc
       \/ /\ \E e \in DialErrors : dial' = [dial EXCEPT ![cur] = e]
          /\ proc' = "panicked"
          /\ UNCHANGED <<local_addr, r_state, r_fds, pc>>
    /\ UNCHANGED <<cfgVars, backlog, cur, client_hello, client_request,
                   domain_name_len, wpos, cliVars, c_out, c_fds, r_sent, r_in,
                   r_out, relVars>>

\* send_server_reply: the reply built from local_addr.ip() and local_addr.port()
ServerReplyBuf ==
    CASE local_addr.kind = "V4" ->
             ServerReply_as_bytes(
                 ServerReply_new(SOCKS_VERSION, 0, "Ipv4",
                                 [kind |-> "Ipv4", octets |-> local_addr.octets],
                                 local_addr.port))
      [] local_addr.kind = "V6" ->
             ServerReply_as_bytes(
                 ServerReply_new(SOCKS_VERSION, 0, "Ipv6",
                                 [kind |-> "Ipv6", octets |-> local_addr.octets],
                                 local_addr.port))

\* send_server_reply: stream.write_all(&buf).unwrap()
SendServerReply ==
    /\ proc = "running"
    /\ pc = "send_server_reply"
    /\ \/ /\ c_state[cur] # "rst"
          /\ \E k \in WriteSizes(Len(ServerReplyBuf) - wpos) :
                /\ c_out' = [c_out EXCEPT
                                ![cur] = @ \o SubSeq(ServerReplyBuf, wpos + 1, wpos + k)]
                /\ IF WriteAllDone(ServerReplyBuf, wpos, k)
                   THEN /\ wpos' = 0
                        /\ pc' = "spawn"
                        /\ log' = [log EXCEPT ![cur] = Append(@, "send_server_reply")]
                   ELSE /\ wpos' = wpos + k
                        /\ UNCHANGED <<pc, log>>
          /\ UNCHANGED <<cfgVars, proc, backlog, cur, client_hello,
                         client_request, domain_name_len, local_addr, cliVars,
                         c_fds, remVars, r_out, r_fds, dial, relVars>>
       \/ /\ c_state[cur] = "rst"
          /\ ProcessEnds("panicked")
          /\ UNCHANGED dial

\* thread::spawn(|| handle_packet_relay(client_conn, remote_conn)) and the
\* next turn of the loop; the locals of this turn go out of scope.
SpawnRelay ==
    /\ proc = "running"
    /\ pc = "spawn"
    /\ h_pc' = [h_pc EXCEPT ![cur] = "start"]
    /\ log' = [log EXCEPT ![cur] = Append(@, "relay")]
    /\ pc' = "accept"
    /\ cur' = 0
    /\ client_hello' = NoHello
    /\ client_request' = NoRequest
    /\ domain_name_len' = 0
    /\ local_addr' = NoLocal
    /\ UNCHANGED <<cfgVars, proc, backlog, wpos, cliVars, c_out, c_fds,
                   remVars, r_out, r_fds, dial, t_pc, t_buf, io_err>>

\* ------------------------------------------------- handle_packet_relay

\* try_clone of both streams and the spawn of the two copy threads:
\* client_to_remote owns client_conn and remote_conn, remote_to_client owns
\* the clones.
RelayStart(c) ==
    /\ proc = "running"
    /\ h_pc[c] = "start"
    /\ c_fds' = [c_fds EXCEPT ![c] = 2]
    /\ r_fds' = [r_fds EXCEPT ![c] = 2]
    /\ t_pc' = [t_pc EXCEPT ![c] = [t \in Tasks |-> "read"]]
    /\ h_pc' = [h_pc EXCEPT ![c] = "join_client_to_remote"]
    /\ UNCHANGED <<cfgVars, proc, backlog, accVars, cliVars, c_out,
                   remVars, r_out, dial, t_buf, io_err, log>>

\* A copy thread ends, by return or by panic: the streams its closure owns
\* are dropped.
DropStreams(c) ==
    /\ c_fds' = [c_fds EXCEPT ![c] = @ - 1]
    /\ r_fds' = [r_fds EXCEPT ![c] = @ - 1]

\* client_to_remote: client_conn.read(&mut buf)
ClientToRemoteRead(c) ==
    /\ proc = "running"
    /\ t_pc[c]["client_to_remote"] = "read"
    /\ \/ /\ c_state[c] # "rst"
          /\ c_in[c] # <<>>
          /\ \E n \in ReadSizes(Len(c_in[c])) :
                /\ t_buf' = [t_buf EXCEPT ![c]["client_to_remote"] = Take(c_in[c], n)]
                /\ c_in' = [c_in EXCEPT ![c] = Drop(@, n)]
          /\ t_pc' = [t_pc EXCEPT ![c]["client_to_remote"] = "write"]
          /\ UNCHANGED <<c_fds, r_fds, io_err>>
       \/ /\ c_state[c] = "fin"
          /\ c_in[c] = <<>>
          /\ t_pc' = [t_pc EXCEPT ![c]["client_to_remote"] = "done"]
          /\ DropStreams(c)
          /\ UNCHANGED <<c_in, t_buf, io_err>>
       \/ /\ ReadError(c_state[c], c_in[c]) # "none"
          /\ io_err' = [io_err EXCEPT
                            ![c]["client_to_remote"] = ReadError(c_state[c], c_in[c])]
          /\ t_pc' = [t_pc EXCEPT ![c]["client_to_remote"] = "panicked"]
          /\ DropStreams(c)
          /\ UNCHANGED <<c_in, t_buf>>
    /\ UNCHANGED <<cfgVars, proc, backlog, accVars, c_state, c_stage,
                   c_out, remVars, r_out, dial, h_pc, log>>

\* client_to_remote: remote_conn.write_all(&buf[..n]).unwrap()
ClientToRemoteWrite(c) ==
    /\ proc = "running"
    /\ t_pc[c]["client_to_remote"] = "write"
    /\ LET buf == t_buf[c]["client_to_remote"]
       IN  \/ /\ r_state[c] # "rst"
              /\ \E k \in WriteSizes(Len(buf)) :
                    /\ r_out' = [r_out EXCEPT ![c] = @ \o Take(buf, k)]
                    /\ t_buf' = [t_buf EXCEPT ![c]["client_to_remote"] = Drop(buf, k)]
                    /\ t_pc' = [t_pc EXCEPT
                                   ![c]["client_to_remote"] =
                                       IF WriteAllDone(buf, 0, k) THEN "read" ELSE "write"]
              /\ UNCHANGED <<c_fds, r_fds, io_err>>
           \/ /\ r_state[c] = "rst"
              /\ io_err' = [io_err EXCEPT ![c]["client_to_remote"] = "ConnectionReset"]
              /\ t_pc' = [t_pc EXCEPT ![c]["client_to_remote"] = "panicked"]
              /\ t_buf' = [t_buf EXCEPT ![c]["client_to_remote"] = <<>>]
              /\ DropStreams(c)
              /\ UNCHANGED r_out
    /\ UNCHANGED <<cfgVars, proc, backlog, accVars, cliVars, c_out,
                   remVars, dial, h_pc, log>>

\* remote_to_client: remote_conn_2.read(&mut buf).  After Err(WouldBlock) the
\* loop continues with the next read; any other error panics.
RemoteToClientRead(c) ==
    /\ proc = "running"
    /\ t_pc[c]["remote_to_client"] = "read"
    /\ \/ /\ r_state[c] # "rst"
          /\ r_in[c] # <<>>
          /\ \E n \in ReadSizes(Len(r_in[c])) :
                /\ t_buf' = [t_buf EXCEPT ![c]["remote_to_client"] = Take(r_in[c], n)]
                /\ r_in' = [r_in EXCEPT ![c] = Drop(@, n)]
          /\ t_pc' = [t_pc EXCEPT ![c]["remote_to_client"] = "write"]
          /\ UNCHANGED <<c_fds, r_fds, io_err>>
       \/ /\ r_state[c] = "fin"
          /\ r_in[c] = <<>>
          /\ t_pc' = [t_pc EXCEPT ![c]["remote_to_client"] = "done"]
          /\ DropStreams(c)
          /\ UNCHANGED <<r_in, t_buf, io_err>>
       \/ /\ ReadError(r_state[c], r_in[c]) = "WouldBlock"
          /\ io_err' = [io_err EXCEPT ![c]["remote_to_client"] = "WouldBlock"]
          /\ UNCHANGED <<t_pc, r_in, t_buf, c_fds, r_fds>>
       \/ /\ ReadError(r_state[c], r_in[c]) \notin {"none", "WouldBlock"}
          /\ io_err' = [io_err EXCEPT
                            ![c]["remote_to_client"] = ReadError(r_state[c], r_in[c])]
          /\ t_pc' = [t_pc EXCEPT ![c]["remote_to_client"] = "panicked"]
          /\ DropStreams(c)
          /\ UNCHANGED <<r_in, t_buf>>
    /\ UNCHANGED <<cfgVars, proc, backlog, accVars, cliVars, c_out,
                   r_state, r_sent, r_out, dial, h_pc, log>>

\* A remote_to_client that writes what it read back to the stream it read
\* from, remote_conn_2.
RemoteToClientWrite_ToRemote(c) ==
    /\ proc = "running"
    /\ t_pc[c]["remote_to_client"] = "write"
    /\ LET buf == t_buf[c]["remote_to_client"]
       IN  /\ r_out' = [r_out EXCEPT ![c] = @ \o buf]
           /\ t_buf' = [t_buf EXCEPT ![c]["remote_to_client"] = <<>>]
           /\ t_pc' = [t_pc EXCEPT ![c]["remote_to_client"] = "read"]
    /\ UNCHANGED <<cfgVars, proc, backlog, accVars, cliVars, remVars,
                   c_out, c_fds, r_fds, dial, h_pc, io_err, log>>

\* remote_to_client: client_conn_2.write_all(&buf[..n]).unwrap()
RemoteToClientWrite(c) ==
    /\ proc = "running"
    /\ t_pc[c]["remote_to_client"] = "write"
    /\ LET buf == t_buf[c]["remote_to_client"]
       IN  \/ /\ c_state[c] # "rst"
              /\ \E k \in WriteSizes(Len(buf)) :
                    /\ c_out' = [c_out EXCEPT ![c] = @ \o Take(buf, k)]
                    /\ t_buf' = [t_buf EXCEPT ![c]["remote_to_client"] = Drop(buf, k)]
                    /\ t_pc' = [t_pc EXCEPT
                                   ![c]["remote_to_client"] =
                                       IF WriteAllDone(buf, 0, k) THEN "read" ELSE "write"]
              /\ UNCHANGED <<c_fds, r_fds, io_err>>
           \/ /\ c_state[c] = "rst"
              /\ io_err' = [io_err EXCEPT ![c]["remote_to_client"] = "ConnectionReset"]
              /\ t_pc' = [t_pc EXCEPT ![c]["remote_to_client"] = "panicked"]
              /\ t_buf' = [t_buf EXCEPT ![c]["remote_to_client"] = <<>>]
              /\ DropStreams(c)
              /\ UNCHANGED c_out
    /\ UNCHANGED <<cfgVars, proc, backlog, accVars, cliVars, remVars,
                   r_out, dial, h_pc, log>>

\* client_to_remote.join().unwrap(): Err, and a panic of the relay thread,
\* when the copy thread panicked.
JoinClientToRemote(c) ==
    /\ proc = "running"
    /\ h_pc[c] = "join_client_to_remote"
    /\ \/ /\ t_pc[c]["client_to_remote"] = "done"
          /\ h_pc' = [h_pc EXCEPT ![c] = "join_remote_to_client"]
       \/ /\ t_pc[c]["client_to_remote"] = "panicked"
          /\ h_pc' = [h_pc EXCEPT ![c] = "panicked"]
    /\ UNCHANGED <<cfgVars, proc, backlog, accVars, cliVars, c_out, c_fds,
                   remVars, r_out, r_fds, dial, t_pc, t_buf, io_err, log>>

\* remote_to_client.join().unwrap()
JoinRemoteToClient(c) ==
    /\ proc = "running"
    /\ h_pc[c] = "join_remote_to_client"
    /\ \/ /\ t_pc[c]["remote_to_client"] = "done"
          /\ h_pc' = [h_pc EXCEPT ![c] = "done"]
       \/ /\ t_pc[c]["remote_to_client"] = "panicked"
          /\ h_pc' = [h_pc EXCEPT ![c] = "panicked"]
    /\ UNCHANGED <<cfgVars, proc, backlog, accVars, cliVars, c_out, c_fds,
                   remVars, r_out, r_fds, dial, t_pc, t_buf, io_err, log>>

\* ---------------------------------------------------------- specification

Next ==
    \/ \E c \in Conns : ClientConnect(c)
    \/ \E c \in Conns : ClientSendGreeting(c)
    \/ \E c \in Conns : ClientSendRequest(c)
    \/ \E c \in Conns : ClientSendData(c)
    \/ \E c \in Conns : ClientClose(c)
    \/ \E c \in Conns : ClientReset(c)
    \/ \E c \in Conns : RemoteSendData(c)
    \/ \E c \in Conns : RemoteClose(c)
    \/ \E c \in Conns : RemoteReset(c)
    \/ Accept
    \/ ReadClientHelloHeader
    \/ ReadClientHelloMethods
    \/ SendServerHello
    \/ ReadClientRequestHeader
    \/ ReadDestinationAddr
    \/ ReadDomainName
    \/ ReadDestinationPort
    \/ Connect
    \/ SendServerReply
    \/ SpawnRelay
    \/ \E c \in Conns : RelayStart(c)
    \/ \E c \in Conns : ClientToRemoteRead(c)
    \/ \E c \in Conns : ClientToRemoteWrite(c)
    \/ \E c \in Conns : RemoteToClientRead(c)
    \/ \E c \in Conns : RemoteToClientWrite(c)
    \/ \E c \in Conns : JoinClientToRemote(c)
    \/ \E c \in Conns : JoinRemoteToClient(c)

Spec == Init /\ [][Next]_vars

\* The accept loop alone with MaxConns clients: the steps of the clients and
\* of the accepting thread.  The relay threads it spawns are not scheduled, so
\* every behaviour of this specification is the beginning of a behaviour of
\* the server with MaxConns clients.
NextListen ==
    \/ \E c \in Conns : ClientConnect(c)
    \/ \E c \in Conns : ClientSendGreeting(c)
    \/ \E c \in Conns : ClientSendRequest(c)
    \/ \E c \in Conns : ClientSendData(c)
    \/ \E c \in Conns : ClientClose(c)
    \/ \E c \in Conns : ClientReset(c)
    \/ Accept
    \/ ReadClientHelloHeader
    \/ ReadClientHelloMethods
    \/ SendServerHello
    \/ ReadClientRequestHeader
    \/ ReadDestinationAddr
    \/ ReadDomainName
    \/ ReadDestinationPort
    \/ Connect
    \/ SendServerReply
    \/ SpawnRelay

SpecListen == InitConcurrent /\ [][NextListen]_vars

\* The threads of the server are scheduled fairly: the accepting thread, the
\* relay thread of a connection and its two copy threads each take a step
\* they are able to take.  A peer that has observed end-of-stream closes its
\* side.
Fairness ==
    /\ WF_vars(\/ Accept \/ ReadClientHelloHeader \/ ReadClientHelloMethods
               \/ SendServerHello \/ ReadClientRequestHeader
               \/ ReadDestinationAddr \/ ReadDomainName \/ ReadDestinationPort
               \/ Connect \/ SendServerReply \/ SpawnRelay)
    /\ \A c \in Conns :
          /\ WF_vars(RelayStart(c) \/ JoinClientToRemote(c) \/ JoinRemoteToClient(c))
          /\ WF_vars(ClientToRemoteRead(c) \/ ClientToRemoteWrite(c))
          /\ WF_vars(RemoteToClientRead(c) \/ RemoteToClientWrite(c))
          /\ WF_vars(RemoteSockClosed(c) /\ RemoteClose(c))
          /\ WF_vars(ClientSockClosed(c) /\ ClientClose(c))

SpecFair == Init /\ [][Next]_vars /\ Fairness

\* The server with one client whose relay reads may return WouldBlock.
SpecWouldBlock == InitWouldBlock /\ [][Next]_vars

\* -------------------------------------------------- the codec on its own

\* No client connects: the functions of packets/ are called on their inputs.
InitCodec == InitServer /\ clients = {} /\ would_block = FALSE

\* Each behaviour of the codec is one call on one input.
ParseClientHello ==
    /\ call = NoCall
    /\ \E raw_packet \in HelloBuffers :
          call' = [fn |-> "ClientHello::new", arg |-> raw_packet,
                   ret |-> ClientHello_new(raw_packet)]
    /\ UNCHANGED serverVars

ParseClientRequest ==
    /\ call = NoCall
    /\ \E raw_packet \in RequestBuffers :
          call' = [fn |-> "ClientRequest::new", arg |-> raw_packet,
                   ret |-> ClientRequest_new(raw_packet)]
    /\ UNCHANGED serverVars

ParseClientUserPassAuth ==
    /\ call = NoCall
    /\ \E raw_packet \in AuthBuffers :
          call' = [fn |-> "ClientUserPassAuth::new", arg |-> raw_packet,
                   ret |-> ClientUserPassAuth_new(raw_packet)]
    /\ UNCHANGED serverVars

\* ServerReply::new_unsuccessful_reply(reply).as_bytes()
SerializeUnsuccessfulReply ==
    /\ call = NoCall
    /\ \E i \in 2..Len(Replies) :
          call' = [fn |-> "ServerReply::new_unsuccessful_reply", arg |-> Replies[i],
                   ret |-> ServerReply_as_bytes_packets(
                               ServerReply_new_unsuccessful_reply(Replies[i]))]
    /\ UNCHANGED serverVars

\* ServerReply::new_successful_reply(sock_addr).as_bytes()
SerializeSuccessfulReply ==
    /\ call = NoCall
    /\ \E sock_addr \in SockAddrs :
          call' = [fn |-> "ServerReply::new_successful_reply", arg |-> sock_addr,
                   ret |-> ServerReply_as_bytes_packets(
                               ServerReply_new_successful_reply(sock_addr))]
    /\ UNCHANGED serverVars

\* lib.rs, send_server_reply: ServerReply::new(5, 0, .., local_addr.port()).as_bytes()
SerializeServerReply ==
    /\ call = NoCall
    /\ \E sock_addr \in SockAddrs :
          LET t == IF sock_addr.kind = "V4" THEN "Ipv4" ELSE "Ipv6"
          IN  call' = [fn |-> "ServerReply::new", arg |-> sock_addr,
                       ret |-> ServerReply_as_bytes(
                                   ServerReply_new(SOCKS_VERSION, 0, t,
                                       [kind |-> t, octets |-> sock_addr.octets],
                                       sock_addr.port))]
    /\ UNCHANGED serverVars

NextCodec ==
    \/ ParseClientHello
    \/ ParseClientRequest
    \/ ParseClientUserPassAuth
    \/ SerializeUnsuccessfulReply
    \/ SerializeSuccessfulReply
    \/ SerializeServerReply

SpecCodec == InitCodec /\ [][NextCodec]_vars

\* ------------------------------------------------------------------ claims

Range(s) == {s[i] : i \in DOMAIN s}

\* listen() has completed phase e for connection c.
Phase(c, e) == e \in Range(log[c])

\* The phases of listen() in the order of the protocol.
PhaseOrder ==
    <<"read_client_hello", "send_server_hello", "read_client_request",
      "connect", "send_server_reply", "relay">>

\* Positions of listen() at which the request is being read.
RequestPcs ==
    {"read_client_request", "read_destination_addr", "read_domain_name",
     "read_destination_port"}

\* The first four bytes of the request of the current connection have been read.
RequestHeaderRead == cur # 0 /\ client_request # NoRequest

\* Length of the ServerReply that starts at the third byte written to client c
\* (22 for address type 4, else 10), and the reply itself.
ReplyLen(c) == IF Len(c_out[c]) >= 6 /\ c_out[c][6] = 4 THEN 22 ELSE 10
ReplyBytes(c) == SubSeq(c_out[c], 3, Len(c_out[c]))

\* The bytes of a whole successful ServerReply follow the ServerHello.
SuccessReplyWritten(c) ==
    /\ Len(c_out[c]) >= 2 + ReplyLen(c)
    /\ c_out[c][3] = 5
    /\ c_out[c][4] = 0

\* One unsuccessful ServerReply with the given code, and nothing else, follows
\* the ServerHello.
FailureReplyWritten(c, code) == ReplyBytes(c) = <<5, code, 0, 1, 0, 0, 0, 0, 0, 0>>

\* A copy thread of connection c has started, or bytes have been relayed.
RelayActive(c) ==
    \/ \E t \in Tasks : t_pc[c][t] # "none"
    \/ r_out[c] # <<>>
    \/ Len(c_out[c]) > 2 + ReplyLen(c)

\* C1: for the configured method m, the ServerHello written after the greeting
\* is [5, m] if and only if m is among the methods the client offered;
\* otherwise it is [5, 0xFF] and the connection ends without a request being
\* read, an upstream dial or a relay.  (Greetings of version 5 that name at
\* least one method.)
C1_MethodNegotiation ==
    (/\ cur # 0
     /\ Phase(cur, "send_server_hello")
     /\ client_hello.version = 5
     /\ client_hello.n_methods > 0) =>
        LET m == auth_settings.method
            offered == m \in Range(client_hello.methods)
        IN  /\ Take(c_out[cur], 2) =
                   (IF offered THEN <<5, AuthMethod_to_u8(m)>> ELSE <<5, 255>>)
            /\ ~offered =>
                   /\ ~RequestHeaderRead
                   /\ dial[cur] = "none"
                   /\ ~RelayActive(cur)

\* C2: a server configured for UserPassword reads a request or dials upstream
\* only for a connection on which it has written the success response [1, 0]
\* of the username/password exchange after the ServerHello.
C2_UserPassGate ==
    \A c \in Conns :
        (/\ auth_settings.method = "UserPassword"
         /\ (Phase(c, "read_client_request") \/ dial[c] # "none")) =>
            /\ Len(c_out[c]) >= 4
            /\ SubSeq(c_out[c], 3, 4) = <<1, 0>>

\* C3: within a connection the phases happen in the order read ClientHello,
\* write ServerHello, read ClientRequest, dial, write ServerReply, relay; the
\* request is read only when the whole ServerHello has been written; the dial
\* happens only after the ServerHello has been written; the relay starts, and
\* relays bytes, only after the whole successful ServerReply has been written.
C3_PhaseOrdering ==
    /\ \A c \in Conns :
          /\ IsPrefix(log[c], PhaseOrder)
          /\ dial[c] # "none" => Len(c_out[c]) >= 2 /\ Len(log[c]) >= 4
          /\ h_pc[c] # "none" => log[c] = PhaseOrder
          /\ RelayActive(c) => SuccessReplyWritten(c) /\ dial[c] = "Ok"
    /\ (cur # 0 /\ pc \in RequestPcs) =>
          /\ wpos = 0
          /\ c_out[cur] = ServerHelloBuf
    /\ (cur # 0 /\ pc = "connect") => c_out[cur] = ServerHelloBuf
    /\ (cur # 0 /\ pc = "spawn") =>
          /\ wpos = 0
          /\ c_out[cur] = ServerHelloBuf \o ServerReplyBuf

\* C3 witness: a connection has gone through every phase and a byte has been
\* relayed in each direction.
C3_Witness ==
    \E c \in Conns :
        /\ log[c] = PhaseOrder
        /\ r_out[c] # <<>>
        /\ Len(c_out[c]) > 2 + ReplyLen(c)

\* C4: a request whose command byte is not 1 is never dialed and never
\* relayed.
C4_OnlyConnectDialed ==
    (RequestHeaderRead /\ client_request.command # 1) =>
        /\ pc \notin {"connect", "send_server_reply", "spawn"}
        /\ dial[cur] = "none"

\* C5: once the connection of a failed request is closed, exactly one
\* ServerReply has been written and nothing was dialed: code 8 for an address
\* type outside {1, 3, 4}, code 1 for a version other than 5.
C5_RequestErrorReply ==
    /\ (RequestHeaderRead /\ client_request.address_type = "None") =>
          /\ dial[cur] = "none"
          /\ ClientSockClosed(cur) => FailureReplyWritten(cur, 8)
    /\ (/\ RequestHeaderRead
        /\ client_request.address_type # "None"
        /\ client_request.version # 5) =>
          /\ dial[cur] = "none"
          /\ ClientSockClosed(cur) => FailureReplyWritten(cur, 1)

\* C6: once the connection of a failed dial is closed, one ServerReply has
\* been written, with code 5 when the connection was refused and code 1 for
\* a failure that is not an unreachable network or host, and no relay was
\* started.
C6_DialFailureReply ==
    \A c \in Conns :
        (dial[c] \in DialErrors /\ ClientSockClosed(c)) =>
            /\ dial[c] = "ConnectionRefused" => FailureReplyWritten(c, 5)
            /\ dial[c] = "TimedOut" => FailureReplyWritten(c, 1)
            /\ ~RelayActive(c)

\* C7: whatever happened on earlier connections, while a client waits to be
\* accepted the acceptor is running.
C7_NoErrorFatal ==
    \A c \in Conns : c \in Range(backlog) => proc = "running"

\* The accepting thread waits for bytes of the client of the current
\* connection, which has sent nothing it could read and has not closed.
Stalled ==
    /\ proc = "running"
    /\ cur # 0
    /\ pc \in {"read_client_hello", "read_client_hello_methods"} \cup RequestPcs
    /\ c_state[cur] = "open"
    /\ c_in[cur] = <<>>

\* C8: while one connection is stalled in its greeting or request, a client
\* that waits in the accept queue can be accepted.
C8_ConcurrentService == (Stalled /\ backlog # <<>>) => ENABLED Accept

\* C9: when a copy thread has ended, the write half of its destination socket
\* is closed: the peer on that side observes end-of-stream.
C9_HalfClose ==
    \A c \in Conns :
        /\ t_pc[c]["client_to_remote"] \in {"done", "panicked"} => RemoteSockClosed(c)
        /\ t_pc[c]["remote_to_client"] \in {"done", "panicked"} => ClientSockClosed(c)

\* C10: when handle_packet_relay has ended, both copy threads have ended and
\* both sockets are released.
C10_RelayTeardown ==
    \A c \in Conns :
        h_pc[c] \in {"done", "panicked"} =>
            /\ \A t \in Tasks : t_pc[c][t] \in {"done", "panicked"}
            /\ c_fds[c] = 0
            /\ r_fds[c] = 0

\* ------------------------------------------------- claims about the codec

\* The last call was of fn and returned Ok / the given error.
ReturnedOk(fn) == call.fn = fn /\ call.ret.tag = "Ok"
ReturnedErr(kind) == call.ret.tag = "Err" /\ call.ret.error.kind = kind

\* Offset of DST.PORT in a request, from its address type byte and, for a
\* domain name, its length byte.
PortOffset(raw_packet) ==
    CASE raw_packet[4] = 1 -> 8
      [] raw_packet[4] = 4 -> 20
      [] raw_packet[4] = 3 -> 5 + raw_packet[5]

\* C11: for every buffer ClientRequest::new accepts, with or without bytes
\* after the packet, destination_port is the big-endian u16 at offset 8 for
\* IPv4, 20 for IPv6 and 5 + domain length for a domain name.
C11_PortByOffset ==
    ReturnedOk("ClientRequest::new") =>
        LET raw_packet == call.arg
            off == PortOffset(raw_packet)
        IN  /\ Len(raw_packet) >= off + 2
            /\ call.ret.value.destination_port =
                   raw_packet[off + 1] * 256 + raw_packet[off + 2]

\* C12: for every greeting ClientHello::new accepts, methods is the sequence
\* of the recognized method bytes among bytes 2 .. 2+n_methods, in their
\* order; bytes at or beyond 2+n_methods contribute nothing.
C12_GreetingMethodList ==
    ReturnedOk("ClientHello::new") =>
        LET raw_packet == call.arg
            last == IF 2 + raw_packet[2] < Len(raw_packet)
                    THEN 2 + raw_packet[2] ELSE Len(raw_packet)
            recognized == SelectSeq(SubSeq(raw_packet, 3, last),
                                    LAMBDA b : AuthMethod_try_from(b) # "Err")
        IN  call.ret.value.methods =
                [i \in 1..Len(recognized) |-> AuthMethod_try_from(recognized[i])]

\* C13: ClientHello::new returns MalformedPacket for every buffer shorter
\* than 3 bytes and ClientRequest::new for every buffer shorter than 10
\* bytes, whatever the version byte; every buffer of sufficient length whose
\* first byte is not 5 is rejected with UnexpectedProtocolVersion.
C13_LengthVersionRejection ==
    /\ (call.fn = "ClientHello::new" /\ Len(call.arg) < 3) =>
           ReturnedErr("MalformedPacket")
    /\ (call.fn = "ClientRequest::new" /\ Len(call.arg) < 10) =>
           ReturnedErr("MalformedPacket")
    /\ (/\ call.fn \in {"ClientHello::new", "ClientRequest::new"}
        /\ Len(call.arg) >= (IF call.fn = "ClientHello::new" THEN 3 ELSE 10)
        /\ call.arg[1] # 5) =>
           /\ ReturnedErr("UnexpectedProtocolVersion")
           /\ call.ret.error.args = <<call.arg[1]>>

\* C13 witness: a request of nine bytes with version 4 has been rejected as
\* malformed, and a greeting of two bytes with version 4 as well.
C13_Witness ==
    \/ /\ call.fn = "ClientRequest::new"
       /\ Len(call.arg) = 9
       /\ call.arg[1] = 4
       /\ ReturnedErr("MalformedPacket")
    \/ /\ call.fn = "ClientRequest::new"
       /\ Len(call.arg) = 10
       /\ call.arg[1] = 4
       /\ ReturnedErr("UnexpectedProtocolVersion")

\* A request of at least ten bytes with version 5, command CONNECT and the
\* given address type.
ConnectRequestOfType(atyp) ==
    /\ call.fn = "ClientRequest::new"
    /\ Len(call.arg) >= 10
    /\ call.arg[1] = 5
    /\ call.arg[2] = 1
    /\ call.arg[4] = atyp

\* C14: ClientRequest::new returns a ClientRequest or a ClientRequestError for
\* every buffer; an IPv6 request of 10 to 21 bytes, a domain-name request
\* whose declared length exceeds the bytes present, and a domain name that is
\* not UTF-8 each yield MalformedPacket.
C14_RequestTotal ==
    /\ call.fn = "ClientRequest::new" => call.ret.tag \in {"Ok", "Err"}
    /\ (ConnectRequestOfType(4) /\ Len(call.arg) <= 21) =>
           ReturnedErr("MalformedPacket")
    /\ (ConnectRequestOfType(3) /\ 5 + call.arg[5] > Len(call.arg)) =>
           ReturnedErr("MalformedPacket")
    /\ (/\ ConnectRequestOfType(3)
        /\ 5 + call.arg[5] <= Len(call.arg)
        /\ ~ IsUtf8(SubSeq(call.arg, 6, 5 + call.arg[5]))) =>
           ReturnedErr("MalformedPacket")

\* C15: ClientUserPassAuth::new returns a ClientUserPassAuth or a
\* UserPassAuthError for every buffer; a buffer shorter than 5 bytes, a
\* version other than 1, a username or password length that runs past the
\* end of the buffer, and a username or password that is not UTF-8 are each
\* reported as an error value.
C15_UserPassAuthTotal ==
    call.fn = "ClientUserPassAuth::new" =>
        LET raw_packet == call.arg
            len == Len(raw_packet)
            ulen == raw_packet[2]
            plen == raw_packet[ulen + 3]
        IN  /\ call.ret.tag \in {"Ok", "Err"}
            /\ len < 5 => call.ret.tag = "Err"
            /\ (len >= 5 /\ raw_packet[1] # 1) => call.ret.tag = "Err"
            /\ (len >= 5 /\ raw_packet[1] = 1) =>
                  IF ulen + 2 > len THEN call.ret.tag = "Err"
                  ELSE IF ulen + 3 > len THEN TRUE
                  ELSE IF ulen + 3 + plen > len THEN call.ret.tag = "Err"
                  ELSE (\/ ~ IsUtf8(SubSeq(raw_packet, 3, ulen + 2))
                        \/ ~ IsUtf8(SubSeq(raw_packet, ulen + 4, ulen + 3 + plen)))
                           => call.ret.tag = "Err"

\* The reply codes of RFC 1928 other than 0.
FailureCode ==
    [SocksServerFail |-> 1, ConnNotAllowed |-> 2, NetUnreachable |-> 3,
     HostUnreachable |-> 4, ConnRefused |-> 5, TTLExpired |-> 6,
     CmdNotSupported |-> 7, AddrTypeNotSupported |-> 8]

\* C16: for every reply code other than Succeeded the serialized ServerReply
\* is the ten bytes [5, code, 0, 1, 0, 0, 0, 0, 0, 0].
C16_UnsuccessfulReplyLayout ==
    call.fn = "ServerReply::new_unsuccessful_reply" =>
        call.ret = <<5, FailureCode[call.arg], 0, 1, 0, 0, 0, 0, 0, 0>>

\* C16 witness: the reply for a refused connection has been serialized.
C16_Witness ==
    /\ call.fn = "ServerReply::new_unsuccessful_reply"
    /\ call.arg = "ConnRefused"
    /\ Len(call.ret) = 10
    /\ call.ret[2] = 5

\* The calls that serialize a ServerReply.
Serializers ==
    {"ServerReply::new_unsuccessful_reply", "ServerReply::new_successful_reply",
     "ServerReply::new"}

\* C17: every serialized ServerReply starts with version 5, has 0 at index 2,
\* an address type byte of 1 or 4 that matches the address that follows, and
\* is 10 bytes long for type 1 and 22 for type 4, port included.
C17_ReplyWellFormed ==
    call.fn \in Serializers =>
        LET b == call.ret
        IN  /\ Len(b) >= 4
            /\ b[1] = 5
            /\ b[3] = 0
            /\ b[4] \in {1, 4}
            /\ Len(b) = (IF b[4] = 1 THEN 10 ELSE 22)
            /\ call.fn # "ServerReply::new_unsuccessful_reply" =>
                  /\ b[4] = (IF call.arg.kind = "V4" THEN 1 ELSE 4)
                  /\ SubSeq(b, 5, Len(b) - 2) = call.arg.octets

\* C17 witness: a reply that carries an IPv6 address has been serialized by
\* server_reply.rs, 22 bytes long.
C17_Witness ==
    /\ call.fn = "ServerReply::new_successful_reply"
    /\ call.arg.kind = "V6"
    /\ Len(call.ret) = 22

\* ------------------------------------------ claims about reply and relay

\* The successful reply for the local address of the upstream socket of the
\* current connection: code 0, the type of the address family, the address
\* and the port in network order.
ExpectedReply ==
    <<5, 0, 0, IF local_addr.kind = "V4" THEN 1 ELSE 4>>
        \o local_addr.octets
        \o <<local_addr.port \div 256, local_addr.port % 256>>

\* C18: the ServerReply written after a successful dial has code 0, the
\* address type of the family of the upstream socket's local address, that
\* address and that port in big-endian; no byte of a reply is written unless
\* the dial has succeeded.
C18_SuccessReplyContent ==
    /\ \A c \in Conns : Len(c_out[c]) > 2 => dial[c] = "Ok"
    /\ (cur # 0 /\ pc = "send_server_reply") =>
           IsPrefix(ReplyBytes(cur), ExpectedReply)
    /\ (cur # 0 /\ pc = "spawn") => ReplyBytes(cur) = ExpectedReply

\* C18 witness: the whole reply for an upstream socket bound to an IPv6
\* address has been written after a successful dial.
C18_Witness ==
    /\ cur # 0
    /\ pc = "spawn"
    /\ local_addr.kind = "V6"
    /\ Len(c_out[cur]) = 24
    /\ dial[cur] = "Ok"

\* Both copy threads of connection c have been started and none has failed.
Relaying(c) == \A t \in Tasks : t_pc[c][t] \in {"read", "write", "done"}

\* C19: once the client has closed its sending side during the relay while
\* the upstream peer, which closes after it has observed end-of-stream, is
\* open, handle_packet_relay eventually returns (unless a peer resets the
\* connection or the upstream peer has closed); and the same with the roles
\* of the two peers swapped.
C19_HalfCloseTerminates ==
    \A c \in Conns :
        /\ (Relaying(c) /\ c_state[c] = "fin" /\ r_state[c] = "open")
               ~> (h_pc[c] = "done" \/ r_state[c] # "open" \/ c_state[c] = "rst")
        /\ (Relaying(c) /\ r_state[c] = "fin" /\ c_state[c] = "open")
               ~> (h_pc[c] = "done" \/ c_state[c] # "open" \/ r_state[c] = "rst")

\* C20: handle_packet_relay never ends by a failure of a copy thread, and
\* while one copy thread has failed and the other is still copying it has
\* not ended.
C20_ErrorIsolation ==
    \A c \in Conns :
        /\ h_pc[c] # "panicked"
        /\ (/\ \E t \in Tasks : t_pc[c][t] = "panicked"
            /\ \E t \in Tasks : t_pc[c][t] \in {"read", "write"}) =>
               h_pc[c] \in {"join_client_to_remote", "join_remote_to_client"}

\* ------------------------------------ claims about the relay and greeting

\* The payload the client and the upstream peer of connection c have sent,
\* and the part of it the relay has read from each socket.
ClientPayload(c) ==
    [i \in 1..(IF c_stage[c] > 2 THEN c_stage[c] - 2 ELSE 0) |-> ClientByte(i)]
RemotePayload(c) == [i \in 1..r_sent[c] |-> RemoteByte(i)]
ReadFromClient(c) == Take(ClientPayload(c), Len(ClientPayload(c)) - Len(c_in[c]))
ReadFromRemote(c) == Take(RemotePayload(c), r_sent[c] - Len(r_in[c]))

\* The bytes written to the client after the ServerHello and the ServerReply.
WrittenToClient(c) == Drop(c_out[c], 2 + ReplyLen(c))

\* C21: during the relay the bytes written to the upstream socket are a
\* prefix of the bytes read from the client and the bytes written to the
\* client a prefix of the bytes read from the upstream socket; a copy thread
\* that is about to read has written all it has read, and when it has ended
\* on end-of-stream the two sequences of its direction are equal.
C21_RelayIntegrity ==
    \A c \in Conns :
        (\A t \in Tasks : t_pc[c][t] # "none") =>
            /\ IsPrefix(r_out[c], ReadFromClient(c))
            /\ IsPrefix(WrittenToClient(c), ReadFromRemote(c))
            /\ t_pc[c]["client_to_remote"] \in {"read", "done"} =>
                   r_out[c] = ReadFromClient(c)
            /\ t_pc[c]["remote_to_client"] \in {"read", "done"} =>
                   WrittenToClient(c) = ReadFromRemote(c)

\* C21 witness: both copy threads have ended on end-of-stream after each has
\* copied MaxPayload bytes.
C21_Witness ==
    \E c \in Conns :
        /\ \A t \in Tasks : t_pc[c][t] = "done"
        /\ Len(r_out[c]) = MaxPayload
        /\ Len(WrittenToClient(c)) = MaxPayload

\* A step that reads or writes a socket of connection c is a step of the one
\* thread that owns that half: the accepting thread for both halves of the
\* client socket before the relay, client_to_remote for client-read and
\* upstream-write, remote_to_client for upstream-read and client-write.
OwnedStep(c) ==
    LET acceptor == cur = c /\ h_pc[c] = "none" /\ \A t \in Tasks : t_pc[c][t] = "none"
    IN  /\ Len(c_in'[c]) < Len(c_in[c]) =>
               \/ /\ acceptor
                  /\ pc \in {"read_client_hello", "read_client_hello_methods"}
                               \cup RequestPcs
               \/ /\ t_pc[c]["client_to_remote"] = "read"
                  /\ t_pc'[c]["client_to_remote"] = "write"
                  /\ UNCHANGED <<pc, c_out, r_in>>
        /\ c_out'[c] # c_out[c] =>
               \/ acceptor /\ pc \in {"send_server_hello", "send_server_reply"}
               \/ /\ t_pc[c]["remote_to_client"] = "write"
                  /\ t_buf'[c]["remote_to_client"] # t_buf[c]["remote_to_client"]
                  /\ UNCHANGED <<pc, c_in, r_in, r_out>>
        /\ Len(r_in'[c]) < Len(r_in[c]) =>
               /\ t_pc[c]["remote_to_client"] = "read"
               /\ t_pc'[c]["remote_to_client"] = "write"
               /\ UNCHANGED <<pc, c_in, c_out, r_out>>
        /\ r_out'[c] # r_out[c] =>
               /\ t_pc[c]["client_to_remote"] = "write"
               /\ t_buf'[c]["client_to_remote"] # t_buf[c]["client_to_remote"]
               /\ UNCHANGED <<pc, c_in, c_out>>

\* C23: every read and every write of a socket is done by the one thread that
\* owns that half at the time; the accepting thread holds no connection whose
\* relay has been spawned.
C23_ExclusiveOwnership ==
    /\ [](cur # 0 => h_pc[cur] = "none")
    /\ [][\A c \in Conns : OwnedStep(c)]_vars

\* C23 witness: during the relay each copy thread has read from its source
\* and written to its destination and is back at its read.
C23_Witness ==
    \E c \in Conns :
        /\ \A t \in Tasks : t_pc[c][t] = "read"
        /\ r_out[c] # <<>>
        /\ WrittenToClient(c) # <<>>

\* C24: after a greeting with a version other than 5 or with n_methods = 0
\* nothing is written to the client (no ServerHello, no ServerReply) and
\* nothing is dialed.
C24_SilentGreetingClose ==
    (/\ cur # 0
     /\ Phase(cur, "read_client_hello")
     /\ (client_hello.version # 5 \/ client_hello.n_methods = 0)) =>
        /\ c_out[cur] = <<>>
        /\ dial[cur] = "none"

\* C25: every ClientHello that ClientHello::new returns has version 5 and
\* between 1 and 255 methods, each of them NoAuth, Gssapi or UserPassword.
C25_ClientHelloInvariant ==
    ReturnedOk("ClientHello::new") =>
        LET hello == call.ret.value
        IN  /\ hello.version = 5
            /\ Len(hello.methods) \in 1..255
            /\ \A i \in 1..Len(hello.methods) :
                   hello.methods[i] \in {"NoAuth", "Gssapi", "UserPassword"}

====
